---- MODULE Spec2Model ----
(***************************************************************************)
(* Node-Farm, new.js: the startup file pipeline (synchronous reads and     *)
(* writes, the chained asynchronous reads) and the HTTP request handler    *)
(* (route dispatch, template filling).                                     *)
(*                                                                         *)
(* Representation.  A text (a file's content, a template, a response body) *)
(* is a sequence of tokens; a token is a string.  A placeholder such as    *)
(* {%PRODUCT_CARDS%} is one token, "$" and the character after it are two. *)
(* A request URL and a query value are sequences of one-character strings, *)
(* so that prefixes, suffixes and case variants are different values.      *)
(***************************************************************************)
EXTENDS Integers, Sequences, FiniteSets, TLC

VARIABLES
    pc,        \* position of the top-level script: the next statement to run
    fs,        \* the disk: path -> content, for the files that exist
    top,       \* the module-scope constants of new.js, once assigned
    chain,     \* the fs.readFile callback chain: its pending operation and its data
    console,   \* the lines written by console.log, in order
    fsLog,     \* the file operations performed, in order
    listening, \* the server socket accepts connections
    handled    \* the requests handled so far, each with its response

vars == <<pc, fs, top, chain, console, fsLog, listening, handled>>

(***************************************************************************)
(* Bounds of the model.                                                    *)
(***************************************************************************)
MaxRequests == 2

(***************************************************************************)
(* Texts.                                                                  *)
(***************************************************************************)
RECURSIVE Join(_)
\* `${text}` inside a template literal: the text as one string.
Join(t) == IF t = <<>> THEN "" ELSE Head(t) \o Join(Tail(t))

RECURSIVE Flatten(_)
\* Array.prototype.join(''): the texts of a list, one after the other.
Flatten(ts) == IF ts = <<>> THEN <<>> ELSE Head(ts) \o Flatten(Tail(ts))

\* The index of the first occurrence of token tok in text t, 0 when absent.
IndexOf(t, tok) ==
    IF \E i \in 1..Len(t) : t[i] = tok
    THEN CHOOSE i \in 1..Len(t) : t[i] = tok /\ \A j \in 1..(i - 1) : t[j] # tok
    ELSE 0

(***************************************************************************)
(* Paths of the files new.js names.                                        *)
(***************************************************************************)
InputPath    == "txt/input.txt"
AppendPath   == "txt/append.txt"
StartPath    == "txt/start.txt"
OutputPath   == "txt/output.txt"
FinalPath    == "final.txt"
OverviewPath == "templates/template-overview.html"
CardPath     == "templates/template-card.html"
ProductPath  == "templates/template-product.html"
DataPath     == "dev-data/data.json"

\* `${__dirname}/txt/${data}.txt`
NamedPath(data) == "txt/" \o Join(data) \o ".txt"

Greeting == <<"Hello World!">>

(***************************************************************************)
(* File contents the runs start from.                                      *)
(***************************************************************************)
\* txt/start.txt names the file of the second read; a trailing newline is
\* part of the name the template literal builds.
StartContents == {<<"read-this">>, <<"append">>, <<"output">>, <<"read-this", "\n">>}

\* templates/template-overview.html: one placeholder, or two of them.
OverviewOne == <<"<main>", "{%PRODUCT_CARDS%}", "</main>">>
OverviewTwo == <<"<main>", "{%PRODUCT_CARDS%}", "<hr>", "{%PRODUCT_CARDS%}", "</main>">>
OverviewTemplates == {OverviewOne, OverviewTwo}

\* templates/template-card.html: plain, or with a doubled dollar sign in its text.
CardPlain  == <<"<card>", "{%PRODUCTNAME%}", "{%PRICE%}", "</card>">>
CardDollar == <<"<card>", "{%PRODUCTNAME%}", "$", "$", "{%PRICE%}", "</card>">>
CardTemplates == {CardPlain, CardDollar}

ProductTemplate == <<"<h1>", "{%PRODUCTNAME%}", "</h1>", "{%PRICE%}", "{%FROM%}">>

\* dev-data/data.json: no record; three records, of different fields, on
\* several lines; a text that is not JSON.
DataEmpty == <<"[", "]">>
DataThree ==
    <<"[", "\n", " ", "{", "productName", ":", "Avocado", ",", " ", "price", ":", "6.50", "}",
      ",", "\n", " ", "{", "productName", ":", "Cheese", "}",
      ",", "\n", " ", "{", "productName", ":", "Corn", ",", " ", "from", ":", "Portugal", "}",
      "\n", "]", "\n">>
DataBroken == <<"[", "{", "productName", ":", "Avocado", ",", "]">>
DataTexts == {DataEmpty, DataThree, DataBroken}

\* The files a run may find on disk before new.js starts.
InitialPaths ==
    {InputPath, AppendPath, StartPath, "txt/read-this.txt",
     OverviewPath, CardPath, ProductPath, DataPath}

(***************************************************************************)
(* JSON.parse, on token texts.                                             *)
(***************************************************************************)
Whitespace  == {" ", "\n", "\t"}
Punctuation == {"[", "]", "{", "}", ",", ":"}

\* A JavaScript value.
Undefined       == [type |-> "undefined"]
JSObject(f)     == [type |-> "object", fields |-> f]
JSNumber(n)     == [type |-> "number", num |-> n]
JSFunction(n)   == [type |-> "function", name |-> n]

IsLiteral(t, i) == i <= Len(t) /\ t[i] \notin Punctuation
TokenAt(t, i)   == IF i <= Len(t) THEN t[i] ELSE "<eof>"
ParseFail       == [ok |-> FALSE, val |-> <<>>, next |-> 0]

RECURSIVE ParseMembers(_, _, _)
\* key : value { , key : value } "}" from position i; a repeated key keeps the last value.
ParseMembers(t, i, acc) ==
    IF ~(IsLiteral(t, i) /\ TokenAt(t, i + 1) = ":" /\ IsLiteral(t, i + 2))
    THEN ParseFail
    ELSE LET acc2 == (t[i] :> t[i + 2]) @@ acc
         IN  CASE TokenAt(t, i + 3) = "," -> ParseMembers(t, i + 4, acc2)
               [] TokenAt(t, i + 3) = "}" -> [ok |-> TRUE, val |-> JSObject(acc2), next |-> i + 4]
               [] OTHER -> ParseFail

ParseObject(t, i) ==
    IF TokenAt(t, i) # "{" THEN ParseFail
    ELSE IF TokenAt(t, i + 1) = "}"
         THEN [ok |-> TRUE, val |-> JSObject(<<>>), next |-> i + 2]
         ELSE ParseMembers(t, i + 1, <<>>)

RECURSIVE ParseElements(_, _, _)
\* object { , object } "]" from position i.
ParseElements(t, i, acc) ==
    LET o == ParseObject(t, i)
    IN  IF ~o.ok THEN ParseFail
        ELSE CASE TokenAt(t, o.next) = "," -> ParseElements(t, o.next + 1, Append(acc, o.val))
               [] TokenAt(t, o.next) = "]" ->
                    [ok |-> TRUE, val |-> Append(acc, o.val), next |-> o.next + 1]
               [] OTHER -> ParseFail

\* JSON.parse(data): whitespace between tokens is skipped; the whole text must be
\* one array of objects.  ok = FALSE stands for the SyntaxError it throws.
JSONparse(text) ==
    LET t == SelectSeq(text, LAMBDA x : x \notin Whitespace)
        r == IF TokenAt(t, 1) # "[" THEN ParseFail
             ELSE IF TokenAt(t, 2) = "]" THEN [ok |-> TRUE, val |-> <<>>, next |-> 3]
             ELSE ParseElements(t, 2, <<>>)
    IN  IF r.ok /\ r.next = Len(t) + 1 THEN [ok |-> TRUE, val |-> r.val]
        ELSE [ok |-> FALSE, val |-> <<>>]

(***************************************************************************)
(* The state after the process is created, before the first statement.     *)
(***************************************************************************)
Unset   == [set |-> FALSE, val |-> <<>>]
Set(v)  == [set |-> TRUE, val |-> v]
TopNames ==
    {"textInput", "textAppend", "tempOverview", "tempCard", "tempProduct", "data", "dataObj"}

\* The content a file has when it is on disk at the start.
InitialContent(p, start, overview, card, json) ==
    CASE p = InputPath           -> <<"input text">>
      [] p = AppendPath          -> <<"append text">>
      [] p = StartPath           -> start
      [] p = "txt/read-this.txt" -> <<"read-this text">>
      [] p = OverviewPath        -> overview
      [] p = CardPath            -> card
      [] p = ProductPath         -> ProductTemplate
      [] p = DataPath            -> json

\* The runs that start with start.txt, the templates and data.json drawn from
\* the given contents, and any subset of the files on disk.
InitWith(starts, overviews, cards, jsons) ==
    /\ pc = "readInput"
    /\ \E present \in SUBSET InitialPaths, start \in starts,
          overview \in overviews, card \in cards, json \in jsons :
            fs = [p \in present |-> InitialContent(p, start, overview, card, json)]
    /\ top = [n \in TopNames |-> Unset]
    /\ chain = [state |-> "idle", data |-> <<>>, data2 |-> <<>>, data3 |-> <<>>]
    /\ console = <<>>
    /\ fsLog = <<>>
    /\ listening = FALSE
    /\ handled = <<>>

\* The server's runs: every template and every data.json, start.txt as shipped.
Init == InitWith({<<"read-this">>}, OverviewTemplates, CardTemplates, DataTexts)

\* The file pipeline's runs: every start.txt, one template of each kind, the
\* data.json of three records and the one that is not JSON.
InitFiles ==
    InitWith(StartContents, {OverviewOne}, {CardPlain}, {DataThree, DataBroken})

(***************************************************************************)
(* File operations.                                                        *)
(***************************************************************************)
FsOp(op, path, ok, by) == [op |-> op, path |-> path, ok |-> ok, by |-> by]

\* const name = fs.readFileSync(path, 'utf-8'): the content, or an exception
\* nothing catches, which ends the process.
ReadFileSync(path, name, next) ==
    IF path \in DOMAIN fs
    THEN /\ top' = [top EXCEPT ![name] = Set(fs[path])]
         /\ fsLog' = Append(fsLog, FsOp("read", path, TRUE, "main"))
         /\ pc' = next
    ELSE /\ fsLog' = Append(fsLog, FsOp("read", path, FALSE, "main"))
         /\ pc' = "crashed"
         /\ UNCHANGED top

\* fs.writeFileSync(path, content): the file holds content, or an exception
\* nothing catches.
WriteFileSync(path, content, line, next) ==
    \E ok \in BOOLEAN :
        /\ fsLog' = Append(fsLog, FsOp("write", path, ok, "main"))
        /\ IF ok
           THEN /\ fs' = (path :> content) @@ fs
                /\ console' = Append(console, line)
                /\ pc' = next
           ELSE /\ pc' = "crashed"
                /\ UNCHANGED <<fs, console>>

(***************************************************************************)
(* The top-level script, statement by statement.                           *)
(***************************************************************************)
ReadTextInput ==
    /\ pc = "readInput"
    /\ ReadFileSync(InputPath, "textInput", "readAppend")
    /\ UNCHANGED <<fs, chain, console, listening, handled>>

ReadTextAppend ==
    /\ pc = "readAppend"
    /\ ReadFileSync(AppendPath, "textAppend", "writeOutput")
    /\ UNCHANGED <<fs, chain, console, listening, handled>>

\* The greeting written with fs.writeFile instead: the statement only hands the
\* write to the runtime, which performs it from the event loop.
WriteOutputDeferred ==
    \/ /\ pc = "writeOutput"
       /\ pc' = "writeFinal"
       /\ UNCHANGED <<fs, top, chain, console, fsLog, listening, handled>>
    \/ /\ pc = "loop"
       /\ \A k \in 1..Len(fsLog) : fsLog[k] # FsOp("write", OutputPath, TRUE, "main")
       /\ fsLog' = Append(fsLog, FsOp("write", OutputPath, TRUE, "main"))
       /\ fs' = (OutputPath :> Greeting) @@ fs
       /\ console' = Append(console, "Text written!")
       /\ UNCHANGED <<pc, top, chain, listening, handled>>

WriteOutput ==
    /\ pc = "writeOutput"
    /\ WriteFileSync(OutputPath, Greeting, "Text written!", "writeFinal")
    /\ UNCHANGED <<top, chain, listening, handled>>

WriteFinal ==
    /\ pc = "writeFinal"
    /\ WriteFileSync(FinalPath, top["textInput"].val \o <<"\n">> \o top["textAppend"].val,
                     "Final text written!", "startChain")
    /\ UNCHANGED <<top, chain, listening, handled>>

\* fs.readFile(start.txt, cb): the read is handed to the runtime; cb runs later.
StartChain ==
    /\ pc = "startChain"
    /\ chain' = [chain EXCEPT !.state = "read1"]
    /\ pc' = "readOverview"
    /\ UNCHANGED <<fs, top, console, fsLog, listening, handled>>

ReadTempOverview ==
    /\ pc = "readOverview"
    /\ ReadFileSync(OverviewPath, "tempOverview", "readCard")
    /\ UNCHANGED <<fs, chain, console, listening, handled>>

ReadTempCard ==
    /\ pc = "readCard"
    /\ ReadFileSync(CardPath, "tempCard", "readProduct")
    /\ UNCHANGED <<fs, chain, console, listening, handled>>

ReadTempProduct ==
    /\ pc = "readProduct"
    /\ ReadFileSync(ProductPath, "tempProduct", "readData")
    /\ UNCHANGED <<fs, chain, console, listening, handled>>

ReadData ==
    /\ pc = "readData"
    /\ ReadFileSync(DataPath, "data", "parseData")
    /\ UNCHANGED <<fs, chain, console, listening, handled>>

\* const dataObj = JSON.parse(data)
ParseData ==
    /\ pc = "parseData"
    /\ LET r == JSONparse(top["data"].val)
       IN  IF r.ok
           THEN /\ top' = [top EXCEPT !["dataObj"] = Set(r.val)]
                /\ pc' = "listen"
           ELSE /\ pc' = "crashed"
                /\ UNCHANGED top
    /\ UNCHANGED <<fs, chain, console, fsLog, listening, handled>>

\* http.createServer(handler); server.listen(PORT, '127.0.0.1', cb): the script
\* ends here and the event loop takes over.
Listen ==
    /\ pc = "listen"
    /\ pc' = "loop"
    /\ UNCHANGED <<fs, top, chain, console, fsLog, listening, handled>>

\* The socket is bound: cb logs, and requests are accepted from now on.  A port
\* that cannot be bound is an 'error' event with no listener, which ends the
\* process.
Listening ==
    /\ pc = "loop"
    /\ ~listening
    /\ \E bound \in BOOLEAN :
        IF bound
        THEN /\ listening' = TRUE
             /\ console' = Append(console, "Listening to local host...")
             /\ pc' = pc
        ELSE /\ pc' = "crashed"
             /\ UNCHANGED <<listening, console>>
    /\ UNCHANGED <<fs, top, chain, fsLog, handled>>

(***************************************************************************)
(* The callback chain of the asynchronous reads.  Each callback runs from  *)
(* the event loop, after the top-level script has ended.                   *)
(***************************************************************************)
\* fs.readFile(path): (err, data) as the callback receives them.
ReadFile(path) ==
    IF path \in DOMAIN fs THEN [err |-> FALSE, data |-> fs[path]]
    ELSE [err |-> TRUE, data |-> <<>>]

\* The error branch without its return: the callback logs and goes on.
ChainErrorContinue ==
    /\ chain' = [chain EXCEPT !.state = CASE chain.state = "read1" -> "read2"
                                          [] chain.state = "read2" -> "read3"
                                          [] OTHER -> "write"]
    /\ console' = Append(console, "error!")

\* if (err) return (console.log("error!"));
ChainError ==
    /\ chain' = [chain EXCEPT !.state = "aborted"]
    /\ console' = Append(console, "error!")

\* (err, data) => { ... fs.readFile(`txt/${data}.txt`, ...) }
ChainRead1 ==
    /\ pc = "loop"
    /\ chain.state = "read1"
    /\ LET r == ReadFile(StartPath)
       IN  /\ fsLog' = Append(fsLog, FsOp("read", StartPath, ~r.err, "chain1"))
           /\ IF r.err THEN ChainError
              ELSE /\ chain' = [chain EXCEPT !.state = "read2", !.data = r.data]
                   /\ UNCHANGED console
    /\ UNCHANGED <<pc, fs, top, listening, handled>>

\* (err, data2) => { ... console.log(data2); fs.readFile(append.txt, ...) }
ChainRead2 ==
    /\ pc = "loop"
    /\ chain.state = "read2"
    /\ LET r == ReadFile(NamedPath(chain.data))
       IN  /\ fsLog' = Append(fsLog, FsOp("read", NamedPath(chain.data), ~r.err, "chain2"))
           /\ IF r.err THEN ChainError
              ELSE /\ chain' = [chain EXCEPT !.state = "read3", !.data2 = r.data]
                   /\ console' = Append(console, Join(r.data))
    /\ UNCHANGED <<pc, fs, top, listening, handled>>

\* (err, data3) => { ... console.log(data3); fs.writeFile(output.txt, ...) }
ChainRead3 ==
    /\ pc = "loop"
    /\ chain.state = "read3"
    /\ LET r == ReadFile(AppendPath)
       IN  /\ fsLog' = Append(fsLog, FsOp("read", AppendPath, ~r.err, "chain3"))
           /\ IF r.err THEN ChainError
              ELSE /\ chain' = [chain EXCEPT !.state = "write", !.data3 = r.data]
                   /\ console' = Append(console, Join(r.data))
    /\ UNCHANGED <<pc, fs, top, listening, handled>>

\* `${data2}\n${data3}`
ChainContent(data2, data3) == data2 \o <<"\n">> \o data3

\* fs.writeFile(output.txt, `${data2}\n${data3}`, 'utf-8', (err) => log): a failed
\* write leaves the file as it was or, opened for writing, empty; the callback
\* logs either way.
ChainWrite ==
    /\ pc = "loop"
    /\ chain.state = "write"
    /\ \E outcome \in {"written", "untouched", "truncated"} :
        /\ fsLog' = Append(fsLog, FsOp("write", OutputPath, outcome = "written", "chain"))
        /\ fs' = CASE outcome = "written" ->
                        (OutputPath :> ChainContent(chain.data2, chain.data3)) @@ fs
                   [] outcome = "truncated" -> (OutputPath :> <<>>) @@ fs
                   [] OTHER -> fs
    /\ chain' = [chain EXCEPT !.state = "done"]
    /\ console' = Append(console, "File written!")
    /\ UNCHANGED <<pc, top, listening, handled>>

(***************************************************************************)
(* Strings of characters: request URLs, pathnames, query values, property  *)
(* keys.                                                                   *)
(***************************************************************************)
PathRoot     == <<"/">>
PathOverview == <<"/", "o", "v", "e", "r", "v", "i", "e", "w">>
PathProduct  == <<"/", "p", "r", "o", "d", "u", "c", "t">>
PathApi      == <<"/", "a", "p", "i">>
KeyId        == <<"i", "d">>
KeyLength    == <<"l", "e", "n", "g", "t", "h">>
KeyUndefined == <<"u", "n", "d", "e", "f", "i", "n", "e", "d">>

\* The request targets the model sends.
UrlRoot          == <<"/">>
UrlOverview      == <<"/", "o", "v", "e", "r", "v", "i", "e", "w">>
UrlOverviewQuery == <<"/", "o", "v", "e", "r", "v", "i", "e", "w", "?", "i", "d", "=", "0">>
UrlProduct0      == <<"/", "p", "r", "o", "d", "u", "c", "t", "?", "i", "d", "=", "0">>
UrlProduct1      == <<"/", "p", "r", "o", "d", "u", "c", "t", "?", "i", "d", "=", "1">>
UrlProductNoId   == <<"/", "p", "r", "o", "d", "u", "c", "t">>
UrlProduct01     == <<"/", "p", "r", "o", "d", "u", "c", "t", "?", "i", "d", "=", "0", "1">>
UrlProductLength == <<"/", "p", "r", "o", "d", "u", "c", "t", "?", "i", "d", "=", "l", "e", "n", "g", "t", "h">>
UrlProduct7      == <<"/", "p", "r", "o", "d", "u", "c", "t", "?", "i", "d", "=", "7">>
UrlProductX      == <<"/", "p", "r", "o", "d", "u", "c", "t", "?", "i", "d", "=", "x">>
UrlApi           == <<"/", "a", "p", "i">>
UrlOverviewCase  == <<"/", "O", "v", "e", "r", "v", "i", "e", "w">>
UrlApiSlash      == <<"/", "a", "p", "i", "/">>
UrlProd          == <<"/", "p", "r", "o", "d">>
Urls ==
    {UrlRoot, UrlOverview, UrlOverviewQuery, UrlProduct0, UrlProduct1,
     UrlProductNoId, UrlProduct01, UrlProductLength, UrlProduct7, UrlProductX,
     UrlApi, UrlOverviewCase, UrlApiSlash, UrlProd}

Digits == {"0", "1", "2", "3", "4", "5", "6", "7", "8", "9"}

DigitValue(c) ==
    CASE c = "0" -> 0 [] c = "1" -> 1 [] c = "2" -> 2 [] c = "3" -> 3 [] c = "4" -> 4
      [] c = "5" -> 5 [] c = "6" -> 6 [] c = "7" -> 7 [] c = "8" -> 8 [] c = "9" -> 9

RECURSIVE DecimalValue(_)
\* The number a string of digits writes.
DecimalValue(s) ==
    IF s = <<>> THEN 0
    ELSE 10 * DecimalValue(SubSeq(s, 1, Len(s) - 1)) + DigitValue(s[Len(s)])

RECURSIVE Split(_, _)
\* String.prototype.split(sep), for a one-character separator.
Split(s, sep) ==
    LET i == IndexOf(s, sep)
    IN  IF i = 0 THEN <<s>>
        ELSE <<SubSeq(s, 1, i - 1)>> \o Split(SubSeq(s, i + 1, Len(s)), sep)

RECURSIVE JoinWith(_, _)
\* Array.prototype.join(sep) on strings of characters.
JoinWith(ss, sep) ==
    IF ss = <<>> THEN <<>>
    ELSE IF Len(ss) = 1 THEN ss[1]
    ELSE ss[1] \o <<sep>> \o JoinWith(Tail(ss), sep)

(***************************************************************************)
(* url.parse(req.url, true): the pathname and the parsed query.            *)
(***************************************************************************)
JSString(s) == [type |-> "string", chars |-> s]
JSArray(a)  == [type |-> "array", items |-> a]

\* The pairs of a query string: name=value separated by "&", empty pairs
\* skipped, a name without "=" has the empty value.
QueryPairs(search) ==
    LET parts == SelectSeq(Split(search, "&"), LAMBDA x : x # <<>>)
        Pair(x) == LET e == IndexOf(x, "=")
                   IN  IF e = 0 THEN [name |-> x, value |-> <<>>]
                       ELSE [name |-> SubSeq(x, 1, e - 1), value |-> SubSeq(x, e + 1, Len(x))]
    IN  [k \in 1..Len(parts) |-> Pair(parts[k])]

\* query[name]: undefined, the value, or the array of the values of a repeated name.
QueryGet(search, name) ==
    LET mine   == SelectSeq(QueryPairs(search), LAMBDA x : x.name = name)
        values == [k \in 1..Len(mine) |-> mine[k].value]
    IN  CASE Len(values) = 0 -> Undefined
          [] Len(values) = 1 -> JSString(values[1])
          [] OTHER -> JSArray(values)

urlParse(u) ==
    LET h    == IndexOf(u, "#")
        noh  == IF h = 0 THEN u ELSE SubSeq(u, 1, h - 1)
        q    == IndexOf(noh, "?")
        path == IF q = 0 THEN noh ELSE SubSeq(noh, 1, q - 1)
        srch == IF q = 0 THEN <<>> ELSE SubSeq(noh, q + 1, Len(noh))
    IN  [pathname |-> path, search |-> srch, id |-> QueryGet(srch, KeyId)]

(***************************************************************************)
(* dataObj[query.id]: property lookup on an array.                         *)
(***************************************************************************)
\* The property key a value converts to.
ToPropertyKey(v) ==
    CASE v.type = "undefined" -> KeyUndefined
      [] v.type = "string"    -> v.chars
      [] v.type = "array"     -> JoinWith(v.items, ",")

\* A canonical array index: decimal digits without a leading zero.
IsArrayIndex(key) ==
    /\ Len(key) >= 1
    /\ \A i \in 1..Len(key) : key[i] \in Digits
    /\ (Len(key) > 1 => key[1] # "0")

\* Names every array inherits from Array.prototype and Object.prototype.
ArrayPrototypeNames ==
    { <<"m", "a", "p">>, <<"a", "t">>, <<"p", "o", "p">>,
      <<"c", "o", "n", "s", "t", "r", "u", "c", "t", "o", "r">> }

ArrayGet(arr, key) ==
    CASE IsArrayIndex(key) ->
            IF DecimalValue(key) < Len(arr) THEN arr[DecimalValue(key) + 1] ELSE Undefined
      [] key = KeyLength -> JSNumber(Len(arr))
      [] key \in ArrayPrototypeNames -> JSFunction(key)
      [] OTHER -> Undefined

(***************************************************************************)
(* Template filling.                                                       *)
(***************************************************************************)
\* The field a placeholder token names (the field name in capitals).
PlaceholderField ==
    [t \in {"{%PRODUCTNAME%}", "{%PRICE%}", "{%FROM%}"} |->
        CASE t = "{%PRODUCTNAME%}" -> "productName"
          [] t = "{%PRICE%}"       -> "price"
          [] t = "{%FROM%}"        -> "from"]

\* modules/replaceTemplate: every placeholder of a field the record has becomes
\* the field's value as text; every other token stays.
replaceTemplate(temp, product) ==
    LET fields  == IF product.type = "object" THEN product.fields ELSE <<>>
        Fill(t) == IF t \in DOMAIN PlaceholderField /\ PlaceholderField[t] \in DOMAIN fields
                   THEN fields[PlaceholderField[t]] ELSE t
    IN  [i \in 1..Len(temp) |-> Fill(temp[i])]

RECURSIVE ExpandReplacement(_, _, _, _)
\* The replacement text of String.prototype.replace: $$ is a dollar sign, $& the
\* match, $` the text before it, $' the text after it.
ExpandReplacement(r, matched, before, after) ==
    IF r = <<>> THEN <<>>
    ELSE IF r[1] = "$" /\ Len(r) >= 2 /\ r[2] \in {"$", "&", "`", "'"}
    THEN (CASE r[2] = "$" -> <<"$">>
            [] r[2] = "&" -> matched
            [] r[2] = "`" -> before
            [] r[2] = "'" -> after)
         \o ExpandReplacement(SubSeq(r, 3, Len(r)), matched, before, after)
    ELSE <<r[1]>> \o ExpandReplacement(Tail(r), matched, before, after)

\* str.replace(pattern, replacement) with a string pattern: the first occurrence only.
StringReplace(str, pattern, replacement) ==
    LET i      == IndexOf(str, pattern)
        before == SubSeq(str, 1, i - 1)
        after  == SubSeq(str, i + 1, Len(str))
    IN  IF i = 0 THEN str
        ELSE before \o ExpandReplacement(replacement, <<pattern>>, before, after) \o after

(***************************************************************************)
(* The request handler.                                                    *)
(***************************************************************************)
WriteHead(status, headers) == [call |-> "writeHead", status |-> status, headers |-> headers]
End(body)                  == [call |-> "end", body |-> body]

HtmlHeaders     == [n \in {"content-type"} |-> "text/html"]
JsonHeaders     == [n \in {"content-type"} |-> "application/json"]
NotFoundHeaders ==
    [n \in {"content-type", "my-own-header"} |->
        IF n = "content-type" THEN "text/html" ELSE "hello-world"]
NotFoundBody    == <<"<h1>Page not found</h1>">>

\* dataObj.map(el => replaceTemplate(tempCard, el)).join('')
CardsHtml(tempCard, dataObj) ==
    Flatten([i \in 1..Len(dataObj) |-> replaceTemplate(tempCard, dataObj[i])])

\* Routing by prefix (startsWith) instead of equality.
StartsWith(s, p) == Len(s) >= Len(p) /\ SubSeq(s, 1, Len(p)) = p
RoutePrefix(pathname) ==
    IF pathname = PathRoot \/ StartsWith(pathname, PathOverview) THEN "overview"
    ELSE IF StartsWith(pathname, PathProduct) THEN "product"
    ELSE IF StartsWith(pathname, PathApi) THEN "api"
    ELSE "notFound"

\* The branch the if / else-if chain takes.
Route(pathname) ==
    IF pathname = PathRoot \/ pathname = PathOverview THEN "overview"
    ELSE IF pathname = PathProduct THEN "product"
    ELSE IF pathname = PathApi THEN "api"
    ELSE "notFound"

\* The calls a branch makes on res, in order, and the record it renders.
OverviewBranch(t) ==
    [calls   |-> << WriteHead(200, HtmlHeaders),
                    End(StringReplace(t["tempOverview"].val, "{%PRODUCT_CARDS%}",
                                      CardsHtml(t["tempCard"].val, t["dataObj"].val))) >>,
     product |-> Undefined]

ProductBranch(t, id) ==
    LET product == ArrayGet(t["dataObj"].val, ToPropertyKey(id))
    IN  [calls   |-> << WriteHead(200, HtmlHeaders),
                        End(replaceTemplate(t["tempProduct"].val, product)) >>,
         product |-> product]

\* The order JSON.stringify writes the fields of the samples in.
FieldOrder == <<"productName", "price", "from">>

RECURSIVE Separated(_, _)
\* The texts of a list with the token sep between them.
Separated(ts, sep) ==
    IF ts = <<>> THEN <<>>
    ELSE IF Len(ts) = 1 THEN ts[1]
    ELSE ts[1] \o <<sep>> \o Separated(Tail(ts), sep)

\* JSON.stringify(dataObj): the compact text, no whitespace.
JSONstringify(objs) ==
    LET Member(o, k) == <<k, ":", o.fields[k]>>
        Keys(o)      == SelectSeq(FieldOrder, LAMBDA k : k \in DOMAIN o.fields)
        Obj(o)       == <<"{">> \o Separated([i \in 1..Len(Keys(o)) |-> Member(o, Keys(o)[i])], ",")
                        \o <<"}">>
    IN  <<"[">> \o Separated([i \in 1..Len(objs) |-> Obj(objs[i])], ",") \o <<"]">>

\* The api branch answering with the parsed records serialized again.
ApiBranchStringify(t) ==
    [calls   |-> << WriteHead(200, JsonHeaders), End(JSONstringify(t["dataObj"].val)) >>,
     product |-> Undefined]

ApiBranch(t) ==
    [calls |-> << WriteHead(200, JsonHeaders), End(t["data"].val) >>, product |-> Undefined]

\* The fallback without its custom header.
NotFoundBranchPlain ==
    [calls |-> << WriteHead(404, HtmlHeaders), End(NotFoundBody) >>, product |-> Undefined]

NotFoundBranch ==
    [calls |-> << WriteHead(404, NotFoundHeaders), End(NotFoundBody) >>, product |-> Undefined]

\* (req, res) => { ... }: what one invocation does, for the module-scope values t.
RequestHandler(t, url) ==
    LET parsed == urlParse(url)
        branch == Route(parsed.pathname)
        did    == CASE branch = "overview" -> OverviewBranch(t)
                    [] branch = "product"  -> ProductBranch(t, parsed.id)
                    [] branch = "api"      -> ApiBranch(t)
                    [] OTHER               -> NotFoundBranch
    IN  [url |-> url, pathname |-> parsed.pathname, id |-> parsed.id, branch |-> branch,
         calls |-> did.calls, product |-> did.product]

\* A handler that consumes the record list (dataObj.shift()) while rendering.
TopAfterRequestShift(t, url) ==
    [t EXCEPT !["dataObj"] =
        Set(IF t["dataObj"].val = <<>> THEN <<>> ELSE Tail(t["dataObj"].val))]

\* The module-scope values after an invocation: the handler assigns to none.
TopAfterRequest(t, url) == t

\* A handler that reads the overview template again on every request.
HandlerFsOpsRead(url) == <<FsOp("read", OverviewPath, TRUE, "handler")>>

\* The file operations of an invocation: the handler calls nothing of fs.
HandlerFsOps(url) == <<>>

HandleRequest ==
    /\ pc = "loop"
    /\ listening
    /\ Len(handled) < MaxRequests
    /\ \E url \in Urls :
        /\ handled' = Append(handled, RequestHandler(top, url))
        /\ top' = TopAfterRequest(top, url)
        /\ fsLog' = fsLog \o HandlerFsOps(url)
    /\ UNCHANGED <<pc, fs, chain, console, listening>>

Startup ==
    \/ ReadTextInput \/ ReadTextAppend \/ WriteOutput \/ WriteFinal \/ StartChain
    \/ ReadTempOverview \/ ReadTempCard \/ ReadTempProduct \/ ReadData \/ ParseData
    \/ Listen \/ Listening

Chain == ChainRead1 \/ ChainRead2 \/ ChainRead3 \/ ChainWrite

Next == Startup \/ Chain \/ HandleRequest

Spec == Init /\ [][Next]_vars

SpecFiles == InitFiles /\ [][Next]_vars

(***************************************************************************)
(* Properties.                                                             *)
(***************************************************************************)
Status(h)      == h.calls[1].status
Headers(h)     == h.calls[1].headers
ContentType(h) == h.calls[1].headers["content-type"]
Body(h)        == h.calls[2].body
Handled        == {handled[i] : i \in 1..Len(handled)}
RoutedPaths    == {PathRoot, PathOverview, PathProduct, PathApi}

\* The number of occurrences of token tok in text t.
Count(t, tok) == Cardinality({i \in 1..Len(t) : t[i] = tok})

\* The part of a request target before its first "?".
RequestPath(u) ==
    CHOOSE p \in {SubSeq(u, 1, n) : n \in 0..Len(u)} :
        /\ \A i \in 1..Len(p) : p[i] # "?"
        /\ Len(p) = Len(u) \/ u[Len(p) + 1] = "?"

\* The records data.json holds, and the stages of the callback chain.
Records     == JSONparse(fs[DataPath]).val
ChainStages == <<"chain1", "chain2", "chain3", "chain">>
ChainOps    == SelectSeq(fsLog, LAMBDA e : e.by \in {"chain1", "chain2", "chain3", "chain"})

\* C1: every handled request takes exactly one of the four branches, decided by
\* exact comparison of the part of its target before "?" (overview only for "/"
\* and "/overview", product only for "/product", api only for "/api", not-found
\* for everything else), and answers with one writeHead followed by one end.
C1_RouteExactTotal ==
    \A h \in Handled :
        LET p == RequestPath(h.url)
        IN  /\ h.branch \in {"overview", "product", "api", "notFound"}
            /\ (h.branch = "overview") = (p \in {PathRoot, PathOverview})
            /\ (h.branch = "product") = (p = PathProduct)
            /\ (h.branch = "api") = (p = PathApi)
            /\ (h.branch = "notFound") = (p \notin RoutedPaths)
            /\ Len(h.calls) = 2
            /\ h.calls[1].call = "writeHead"
            /\ h.calls[2].call = "end"
            /\ (Status(h) = 404) = (h.branch = "notFound")
            /\ (ContentType(h) = "application/json") = (h.branch = "api")

\* A target with a query took the overview branch and a suffix variant of /api
\* took not-found.
C1_Witness ==
    \E g, h \in Handled :
        /\ g.url = UrlOverviewQuery /\ g.branch = "overview"
        /\ h.url = UrlApiSlash /\ h.branch = "notFound"

\* C2: a request for "/" or "/overview" is answered 200 text/html with the
\* overview template in which the single {%PRODUCT_CARDS%} placeholder is
\* replaced by the cards of the records, one per record, in load order.
C2_OverviewBody ==
    \A h \in Handled :
        (RequestPath(h.url) \in {PathRoot, PathOverview}
         /\ Count(fs[OverviewPath], "{%PRODUCT_CARDS%}") = 1) =>
            LET t     == fs[OverviewPath]
                i     == IndexOf(t, "{%PRODUCT_CARDS%}")
                cards == [k \in 1..Len(Records) |-> replaceTemplate(fs[CardPath], Records[k])]
            IN  /\ Status(h) = 200
                /\ ContentType(h) = "text/html"
                /\ Body(h) = SubSeq(t, 1, i - 1) \o Flatten(cards) \o SubSeq(t, i + 1, Len(t))

\* C3: a request for "/product" is answered 200 text/html, and the value
\* rendered into the product template is the record at index id when id is an
\* index within the record list, and undefined for every other id.
C3_ProductLookup ==
    \A h \in Handled :
        RequestPath(h.url) = PathProduct =>
            LET inBounds == /\ h.id.type = "string"
                            /\ IsArrayIndex(h.id.chars)
                            /\ DecimalValue(h.id.chars) < Len(Records)
                expected == IF inBounds THEN Records[DecimalValue(h.id.chars) + 1]
                            ELSE Undefined
            IN  /\ Status(h) = 200
                /\ ContentType(h) = "text/html"
                /\ h.product = expected
                /\ Body(h) = replaceTemplate(fs[ProductPath], expected)

\* C4: a request for "/api" is answered 200 application/json with the text of
\* data.json as it is on disk, whatever was handled before.
C4_ApiRawJson ==
    \A h \in Handled :
        RequestPath(h.url) = PathApi =>
            /\ Status(h) = 200
            /\ Headers(h) = [n \in {"content-type"} |-> "application/json"]
            /\ Body(h) = fs[DataPath]

\* /api was handled after a product request, for a data.json with whitespace.
C4_Witness ==
    /\ Len(handled) >= 2
    /\ handled[1].branch = "product"
    /\ handled[2].url = UrlApi
    /\ fs[DataPath] = DataThree

\* C5: a request for any path other than the four routed ones is answered 404
\* text/html with my-own-header: hello-world and the fixed body, and no request
\* for a routed path is answered 404.
C5_NotFound ==
    \A h \in Handled :
        IF RequestPath(h.url) \in RoutedPaths
        THEN Status(h) # 404
        ELSE /\ Status(h) = 404
             /\ DOMAIN Headers(h) = {"content-type", "my-own-header"}
             /\ Headers(h)["content-type"] = "text/html"
             /\ Headers(h)["my-own-header"] = "hello-world"
             /\ Body(h) = <<"<h1>Page not found</h1>">>

\* A prefix of /product was answered 404, and /product itself was not.
C5_Witness ==
    \E g, h \in Handled :
        /\ g.url = UrlProd /\ Status(g) = 404
        /\ h.url = UrlProduct0 /\ Status(h) = 200

\* C6: once a read of the startup pipeline has failed, no request is answered.
C6_StartupReadFailureFatal ==
    [][(\E k \in 1..Len(fsLog) : fsLog[k].op = "read" /\ ~fsLog[k].ok) => handled' = handled]_vars

\* C7: when the script has reached the event loop, the three templates, the
\* JSON text and the parsed records are set to what the files hold; requests
\* are handled only while listening; and handling a request performs no file
\* operation and leaves the disk as it is.
C7_LoadedBeforeListening ==
    /\ [](pc = "loop" \/ listening \/ handled # <<>> =>
            /\ \A n \in {"tempOverview", "tempCard", "tempProduct", "data", "dataObj"} : top[n].set
            /\ top["tempOverview"].val = fs[OverviewPath]
            /\ top["tempCard"].val = fs[CardPath]
            /\ top["tempProduct"].val = fs[ProductPath]
            /\ top["data"].val = fs[DataPath]
            /\ JSONparse(fs[DataPath]).ok
            /\ top["dataObj"].val = Records)
    /\ [][handled' # handled => listening /\ fsLog' = fsLog /\ fs' = fs]_vars

\* A request was handled while the chain's first read was still pending.
C7_Witness == listening /\ handled # <<>> /\ chain.state = "read1"

\* C8: the chain's operations happen in stage order, each only after the one
\* before it succeeded: start.txt, the file start.txt names, append.txt, then
\* the write of second content, newline, third content to output.txt.  A failed
\* read is the chain's last operation and logs "error!".
C8_ChainSequential ==
    /\ Len(ChainOps) <= 4
    /\ \A k \in 1..Len(ChainOps) : ChainOps[k].by = ChainStages[k]
    /\ \A k \in 2..Len(ChainOps) : ChainOps[k - 1].ok
    /\ \A k \in 1..Len(ChainOps) :
        /\ ChainOps[k].op = (IF k = 4 THEN "write" ELSE "read")
        /\ ChainOps[k].path = CASE k = 1 -> StartPath
                                [] k = 2 -> "txt/" \o Join(fs[StartPath]) \o ".txt"
                                [] k = 3 -> AppendPath
                                [] k = 4 -> OutputPath
    /\ ChainOps # <<>> => pc \in {"loop", "crashed"}
    /\ \A k \in 1..Len(ChainOps) :
        (k <= 3 /\ ~ChainOps[k].ok) =>
            /\ k = Len(ChainOps)
            /\ chain.state = "aborted"
            /\ Count(console, "error!") = 1
    /\ (Len(ChainOps) = 4 /\ ChainOps[4].ok) =>
            LET second == IF ChainOps[2].path = OutputPath THEN Greeting
                          ELSE fs[ChainOps[2].path]
            IN  fs[OutputPath] = second \o <<"\n">> \o fs[AppendPath]

\* The second read failed (start.txt names a file that is not there): the chain
\* stopped after two operations.
C8_Witness == chain.state = "aborted" /\ Len(ChainOps) = 2 /\ ChainOps[1].ok

\* C9: once requests are handled, the templates, the JSON text and the records
\* are still what was loaded, and every response is the one its request gets
\* when handled alone: equal targets have equal responses.
C9_NoSharedMutableState ==
    handled # <<>> =>
        /\ top["tempOverview"].val = fs[OverviewPath]
        /\ top["tempCard"].val = fs[CardPath]
        /\ top["tempProduct"].val = fs[ProductPath]
        /\ top["data"].val = fs[DataPath]
        /\ top["dataObj"].val = Records
        /\ \A g, h \in Handled : g.url = h.url => g.calls = h.calls
        /\ \A h \in Handled : h = RequestHandler(top, h.url)

\* The overview was requested twice, over a data.json with records.
C9_Witness ==
    /\ Len(handled) >= 2
    /\ handled[1].url = UrlOverview
    /\ handled[2].url = UrlOverview
    /\ Records # <<>>

\* C10: the chain's write to output.txt comes after the synchronous write of
\* the greeting; after a successful chain write the file holds the chained
\* content, not the greeting; the file holds the greeting only when no chain
\* write succeeded.
C10_GreetingThenChain ==
    /\ \A k \in 1..Len(fsLog) :
        (fsLog[k].by = "chain") =>
            \E j \in 1..(k - 1) : fsLog[j] = FsOp("write", OutputPath, TRUE, "main")
    /\ (\E k \in 1..Len(fsLog) : fsLog[k] = FsOp("write", OutputPath, TRUE, "chain")) =>
            /\ fs[OutputPath] = chain.data2 \o <<"\n">> \o chain.data3
            /\ fs[OutputPath] # Greeting
    /\ (OutputPath \in DOMAIN fs /\ fs[OutputPath] = Greeting) =>
            \A k \in 1..Len(fsLog) : ~(fsLog[k].by = "chain" /\ fsLog[k].ok)

\* The chain ran to its end and its write succeeded.
C10_Witness ==
    /\ chain.state = "done"
    /\ \E k \in 1..Len(fsLog) : fsLog[k] = FsOp("write", OutputPath, TRUE, "chain")

====
